---- MODULE Spec2Model ----
(***************************************************************************)
(* Notes-Email: an Express task manager (src/index.js).  Users sign up and *)
(* log in, create tasks with deadlines, list / show / edit / delete them,  *)
(* and a node-cron job mails a reminder one hour before each deadline.     *)
(*                                                                         *)
(* Time is counted in whole hours of local time: Hour is the 3600 * 1000   *)
(* ms of the source and Day is the period of a "m h * * *" cron pattern.   *)
(* Every await of a handler is a point where the clock may advance and     *)
(* other handlers and timers may run, so the handlers with more than one   *)
(* await are split into one action per continuation.                       *)
(***************************************************************************)
EXTENDS Integers, Sequences, FiniteSets, TLC

\* ---------------------------------------------------------------- bounds
MaxTime == 3           \* the clock stops advancing here
MaxDayTime == 26       \* ... and here when a whole day is followed
MaxTasks == 1          \* number of tasks ever saved

\* ------------------------------------------------------ program constants
Hour == 1              \* 3600 * 1000 ms, in clock units
HoursPerDay == 24      \* Date.getHours() ranges over 0..23

\* ------------------------------------------------------------ input sets
Sessions == {"s1"}
Emails == {"a@x", "b@x"}
Passwords == {"pw1", "pw2"}
SignupEmails == {"a@x"}
SignupPasswords == {"pw1"}
Titles == {"", "Pay rent"}
NewTitles == {"Call bank"}
Descriptions == {"d1"}
NewDescriptions == {"d2"}
DeadlineOffsets == {0, 1, 2, 26}
UpdateOffset == 3      \* an edit moves the deadline three hours ahead

None == 0              \* undefined / null
NaN == -1              \* Date.getTime() of an invalid date

\* The deadline strings a client may post at clock reading t: the empty
\* string, text that is no date, and the ISO form of a few instants.
DeadlineInputs(t) ==
  {[fmt |-> "empty", value |-> 0], [fmt |-> "text", value |-> 0]}
    \cup {[fmt |-> "iso", value |-> t + o] : o \in DeadlineOffsets}

VARIABLES
  now,        \* process clock (Date.now()), in hours
  users,      \* User collection: sequence of [email, password]; _id = index
  session,    \* req.session.userId of each browser session (None if unset)
  tasks,      \* Task collection: function from _id to the document
  nextId,     \* the next _id the store assigns to a task
  jobs,       \* cron jobs registered by cron.schedule, in registration order
  due,        \* indexes of the jobs whose pattern matched the current instant
  mail,       \* sendMail calls so far, each with the time, the message and
              \* whether the transport delivered it (a failure is logged)
  listReq,    \* the GET /tasks handler in flight (pc = "idle" when none)
  newReq,     \* the POST /tasks/new handler in flight (pc = "idle" when none)
  last        \* the last handler step: what it did and what it answered

vars == <<now, users, session, tasks, nextId, jobs, due, mail, listReq,
          newReq, last>>


\* ------------------------------------------------------------- helpers

\* new Date(deadline).getTime(): the timestamp an ISO string denotes, NaN
\* for anything else.
ParseDate(str) == IF str.fmt = "iso" THEN str.value ELSE NaN

\* !x of a request field: undefined and "" are falsy.
FalsyStr(x) == x = ""
FalsyId(x) == x = None
FalsyDate(str) == str.fmt = "empty"

\* Date.getMinutes() and Date.getHours() of a timestamp; the clock counts
\* whole hours, so the minute is always 0.
GetMinutes(t) == 0
GetHours(t) == (t \div Hour) % HoursPerDay

\* The pattern `${getMinutes()} ${getHours()} * * *` of a reminder time.
CronPattern(reminderTime) ==
  [minute |-> GetMinutes(reminderTime), hour |-> GetHours(reminderTime)]

\* node-cron fires a job at every instant whose minute and hour match.
Matches(pattern, t) ==
  pattern.minute = GetMinutes(t) /\ pattern.hour = GetHours(t)

\* The password hash the User model stores, and its comparePassword.
Hash(pw) == <<"bcrypt", pw>>
ComparePassword(user, pw) == user.password = Hash(pw)

\* User.findOne({ email }): the _id of the user with that email, or None.
FindOne(email) ==
  IF \E i \in 1..Len(users) : users[i].email = email
  THEN CHOOSE i \in 1..Len(users) : users[i].email = email
  ELSE None

\* User.findById(userId)
FindById(userId) == IF userId \in 1..Len(users) THEN userId ELSE None

\* jwt.sign({ id }, secret)
JwtSign(id) == [id |-> id, alg |-> "HS256"]
NoCookie == [id |-> None, alg |-> ""]

\* Task.find({ user: userId }): the user's documents as read at this moment.
Find(userId) ==
  [i \in {j \in DOMAIN tasks : tasks[j].user = userId} |-> tasks[i]]

\* The ids of a snapshot in store order, as a sequence.
RECURSIVE InOrder(_)
InOrder(ids) ==
  IF ids = {} THEN <<>>
  ELSE LET m == CHOOSE i \in ids : \A j \in ids : i <= j
       IN <<m>> \o InOrder(ids \ {m})

\* middleware/auth.js protect: lets a request through only when its session
\* carries a user identifier.
Protect(s) == session[s] # None

\* AppError(message, statusCode) as seen by the error middleware:
\* status = err.statusCode || 500.
ErrorStatus(statusCode) == IF statusCode = None THEN 500 ELSE statusCode

NoList == <<>>

\* What one handler step did: the operation, the status answered (None while
\* the request is still in flight), the :id of the route (None when it has
\* none), whether the request's session carried a
\* user identifier when it arrived, whether the step read or wrote the Task
\* Store, the cookie set on the response and the task list rendered.
Step(op, id, status, authed, store, setCookie, list) ==
  [op |-> op, id |-> id, status |-> status, authed |-> authed,
   store |-> store, setCookie |-> setCookie, list |-> list]

\* The answer of protect to a request it does not let through.
Refused(op, id) == Step(op, id, 302, FALSE, FALSE, NoCookie, NoList)

Idle == [pc |-> "idle"]


\* ----------------------------------------------------------------- Init

Init ==
  /\ now = 0
  /\ users = <<>>
  /\ session = [s \in Sessions |-> None]
  /\ tasks = <<>>
  /\ nextId = 1
  /\ jobs = <<>>
  /\ due = {}
  /\ mail = <<>>
  /\ listReq = Idle
  /\ newReq = Idle
  /\ last = Step("listen", None, None, FALSE, FALSE, NoCookie, NoList)

\* ------------------------------------------------------- clock and cron

\* The clock advances one hour once every job due at this instant has run;
\* the jobs whose pattern matches the new instant become due.
Tick(limit) ==
  /\ now < limit
  /\ due = {}
  /\ now' = now + 1
  /\ due' = {j \in 1..Len(jobs) : Matches(jobs[j].pattern, now + 1)}
  /\ UNCHANGED <<users, session, tasks, nextId, jobs, mail,
                 listReq, newReq, last>>

\* The callback given to cron.schedule: sendMail with the values captured
\* by the closure; a transport failure is caught and logged.
FireReminder(j, ok) ==
  /\ j \in due
  /\ mail' = Append(mail, [job |-> j, at |-> now, ok |-> ok,
                           to |-> jobs[j].userEmail,
                           title |-> jobs[j].taskTitle,
                           description |-> jobs[j].taskDescription,
                           deadline |-> jobs[j].taskDeadline])
  /\ due' = due \ {j}
  /\ UNCHANGED <<now, users, session, tasks, nextId, jobs, listReq,
                 newReq, last>>

\* scheduleReminderEmail: the cron job registered for a saved task.
ScheduleReminderEmail(userEmail, taskTitle, taskDescription, taskDeadline) ==
  LET reminderTime == taskDeadline - Hour
  IN [userEmail |-> userEmail, taskTitle |-> taskTitle,
      taskDescription |-> taskDescription, taskDeadline |-> taskDeadline,
      pattern |-> CronPattern(reminderTime)]

\* ---------------------------------------------------------------- auth

\* PostLogin without the password comparison.
PostLoginNoCompare(s, email, password) ==
  LET user == FindOne(email)
  IN /\ IF user = None
        THEN /\ last' = Step("login", None, ErrorStatus(401), FALSE, FALSE,
                             NoCookie, NoList)
                           @@ [email |-> email, password |-> password]
             /\ UNCHANGED session
        ELSE /\ session' = [session EXCEPT ![s] = user]
             /\ last' = Step("login", None, 302, FALSE, FALSE,
                             JwtSign(user), NoList)
                           @@ [email |-> email, password |-> password]
     /\ UNCHANGED <<now, users, tasks, nextId, jobs, due, mail,
                    listReq, newReq>>

PostLogin(s, email, password) ==
  LET user == FindOne(email)
  IN /\ IF user = None \/ ~ComparePassword(users[user], password)
        THEN /\ last' = Step("login", None, ErrorStatus(401), FALSE, FALSE,
                             NoCookie, NoList)
                           @@ [email |-> email, password |-> password]
             /\ UNCHANGED session
        ELSE /\ session' = [session EXCEPT ![s] = user]
             /\ last' = Step("login", None, 302, FALSE, FALSE,
                             JwtSign(user), NoList)
                           @@ [email |-> email, password |-> password]
     /\ UNCHANGED <<now, users, tasks, nextId, jobs, due, mail,
                    listReq, newReq>>

\* User.create fails on a duplicate email; the store's error carries no
\* statusCode.
PostSignup(s, email, password) ==
  /\ IF FindOne(email) # None
     THEN /\ last' = Step("signup", None, ErrorStatus(None), FALSE, FALSE,
                          NoCookie, NoList)
          /\ UNCHANGED users
     ELSE LET newUser == Len(users) + 1
          IN /\ users' = Append(users, [email |-> email,
                                        password |-> Hash(password)])
             /\ last' = Step("signup", None, 302, FALSE, FALSE,
                             JwtSign(newUser), NoList)
  /\ UNCHANGED <<now, session, tasks, nextId, jobs, due, mail,
                 listReq, newReq>>

GetLogout(s) ==
  /\ session' = [session EXCEPT ![s] = None]
  /\ last' = Step("logout", None, 302, FALSE, FALSE, NoCookie, NoList)
  /\ UNCHANGED <<now, users, tasks, nextId, jobs, due, mail,
                 listReq, newReq>>


\* ------------------------------------------------------ POST /tasks/new

\* The bodies a client may post at clock reading t: a well-formed body and
\* its variants in one field (userId 2 is no registered user).
GoodBody(t) ==
  [title |-> "Pay rent", description |-> "d1",
   deadline |-> [fmt |-> "iso", value |-> t + 2 * Hour], userId |-> 1]
NewBodies(t) ==
  {[GoodBody(t) EXCEPT !.title = ti] : ti \in Titles}
    \cup {[GoodBody(t) EXCEPT !.deadline = d] : d \in DeadlineInputs(t)}
    \cup {[GoodBody(t) EXCEPT !.userId = u] : u \in {None, 1, 2}}

\* ValidationError with the last comparison < instead of <=.
ValidationErrorLax(body, currentTime) ==
  IF FalsyStr(body.title) \/ FalsyDate(body.deadline) \/ FalsyId(body.userId)
  THEN 400
  ELSE LET deadlineDate == ParseDate(body.deadline)
           oneHourAhead == currentTime + Hour
       IN IF deadlineDate = NaN THEN 400
          ELSE IF deadlineDate <= currentTime THEN 400
          ELSE IF deadlineDate < oneHourAhead THEN 400
          ELSE None

\* The checks of the handler before it reads the store: the statusCode of
\* the AppError thrown, or None when the body passes.
ValidationError(body, currentTime) ==
  IF FalsyStr(body.title) \/ FalsyDate(body.deadline) \/ FalsyId(body.userId)
  THEN 400
  ELSE LET deadlineDate == ParseDate(body.deadline)
           oneHourAhead == currentTime + Hour
       IN IF deadlineDate = NaN THEN 400
          ELSE IF deadlineDate <= currentTime THEN 400
          ELSE IF deadlineDate <= oneHourAhead THEN 400
          ELSE None

\* The handler's first turn: the validation against the clock, after which
\* User.findById is issued.
TasksNewValidate(s, body) ==
  LET err == ValidationError(body, now)
  IN IF err # None
     THEN /\ last' = Step("create", None, ErrorStatus(err), Protect(s),
                          FALSE, NoCookie, NoList)
                        @@ [body |-> body]
          /\ UNCHANGED newReq
     ELSE /\ newReq' = [pc |-> "lookup", authed |-> Protect(s),
                        title |-> body.title,
                        description |-> body.description,
                        deadlineDate |-> ParseDate(body.deadline),
                        userId |-> body.userId,
                        currentTime |-> now]
          /\ last' = Step("create", None, None, Protect(s), FALSE,
                          NoCookie, NoList)
                        @@ [body |-> body]

\* protect, then the handler.
PostTasksNew(s, body) ==
  /\ newReq.pc = "idle"
  /\ Protect(s) /\ ValidationError(body, now) = None => nextId <= MaxTasks
  /\ IF ~Protect(s)
     THEN /\ last' = Refused("create", None)
          /\ UNCHANGED newReq
     ELSE TasksNewValidate(s, body)
  /\ UNCHANGED <<now, users, session, tasks, nextId, jobs, due, mail,
                 listReq>>

\* The handler resumes with the user: 404 when there is none, else the task
\* is saved.
NewSave ==
  /\ newReq.pc = "lookup"
  /\ LET user == FindById(newReq.userId)
     IN IF user = None
        THEN /\ last' = Step("create", None, ErrorStatus(404),
                             newReq.authed, FALSE, NoCookie, NoList)
             /\ newReq' = Idle
             /\ UNCHANGED <<tasks, nextId>>
        ELSE /\ tasks' = tasks @@ (nextId :>
                            [title |-> newReq.title,
                             description |-> newReq.description,
                             deadline |-> newReq.deadlineDate,
                             user |-> newReq.userId,
                             userEmail |-> users[user].email])
             /\ nextId' = nextId + 1
             /\ newReq' = [newReq EXCEPT !.pc = "saved"] @@
                            [id |-> nextId, userEmail |-> users[user].email]
             /\ last' = Step("create", None, None, newReq.authed, TRUE,
                             NoCookie, NoList)
  /\ UNCHANGED <<now, users, session, jobs, due, mail,
                 listReq>>

\* The handler resumes after save(): the reminder is scheduled and the
\* client is redirected.
NewSchedule ==
  /\ newReq.pc = "saved"
  /\ jobs' = Append(jobs, ScheduleReminderEmail(newReq.userEmail,
                            newReq.title, newReq.description,
                            newReq.deadlineDate))
  /\ newReq' = Idle
  /\ last' = Step("create", None, 302, newReq.authed, FALSE, NoCookie,
                  NoList)
  /\ UNCHANGED <<now, users, session, tasks, nextId, due, mail, listReq>>

\* -------------------------------------------------- the other task routes

GetTasksNew(s) ==
  /\ last' = IF ~Protect(s) THEN Refused("form", None)
             ELSE Step("form", None, 200, Protect(s), FALSE, NoCookie, NoList)
  /\ UNCHANGED <<now, users, session, tasks, nextId, jobs, due, mail,
                 listReq, newReq>>

GetTask(s, id) ==
  /\ last' = IF ~Protect(s) THEN Refused("show", id)
             ELSE IF id \notin DOMAIN tasks
             THEN Step("show", id, ErrorStatus(404), Protect(s), TRUE,
                       NoCookie, NoList)
             ELSE Step("show", id, 200, Protect(s), TRUE, NoCookie, NoList)
  /\ UNCHANGED <<now, users, session, tasks, nextId, jobs, due, mail,
                 listReq, newReq>>

GetTaskEdit(s, id) ==
  /\ last' = IF ~Protect(s) THEN Refused("editform", id)
             ELSE IF id \notin DOMAIN tasks
             THEN Step("editform", id, ErrorStatus(404), Protect(s), TRUE,
                       NoCookie, NoList)
             ELSE Step("editform", id, 200, Protect(s), TRUE, NoCookie, NoList)
  /\ UNCHANGED <<now, users, session, tasks, nextId, jobs, due, mail,
                 listReq, newReq>>

\* The bodies the edit form posts: the fields present in req.body and their
\* values.
UpdateBodies(t) ==
  [fields : {{"title", "description", "deadline"}},
   title : NewTitles \cup {""},
   description : NewDescriptions,
   deadline : {[fmt |-> "text", value |-> 0],
               [fmt |-> "iso", value |-> t + UpdateOffset]}]

\* The Task schema's validators, run on the fields of an update: a title,
\* when given, is not empty and a deadline, when given, is a date.
SchemaValid(body) ==
  /\ "title" \in body.fields => body.title # ""
  /\ "deadline" \in body.fields => ParseDate(body.deadline) # NaN

\* The document after the fields of the body replace its own.
Updated(doc, body) ==
  [doc EXCEPT
     !.title = IF "title" \in body.fields THEN body.title ELSE @,
     !.description = IF "description" \in body.fields THEN body.description
                     ELSE @,
     !.deadline = IF "deadline" \in body.fields THEN ParseDate(body.deadline)
                  ELSE @]

\* findByIdAndUpdate rejects with the validation error of a body the schema
\* refuses (an error without statusCode) and resolves to null for an id that
\* is not in the store; the handler redirects whatever it resolves to.
PutTaskEdit(s, id, body) ==
  /\ IF ~Protect(s)
     THEN /\ last' = Refused("update", id)
          /\ UNCHANGED tasks
     ELSE IF ~SchemaValid(body)
     THEN /\ last' = Step("update", id, ErrorStatus(None), Protect(s), FALSE,
                          NoCookie, NoList)
                        @@ [body |-> body]
          /\ UNCHANGED tasks
     ELSE /\ tasks' = IF id \in DOMAIN tasks
                      THEN [tasks EXCEPT ![id] = Updated(@, body)]
                      ELSE tasks
          /\ last' = Step("update", id, 302, Protect(s), TRUE,
                          NoCookie, NoList)
                        @@ [body |-> body]
  /\ UNCHANGED <<now, users, session, nextId, jobs, due, mail, listReq,
                 newReq>>

\* The store without the document of that id.
Without(id) == [i \in DOMAIN tasks \ {id} |-> tasks[i]]

\* DeleteTask that also stops the task's cron job.
DeleteTaskCancels(s, id) ==
  /\ IF ~Protect(s)
     THEN /\ last' = Refused("delete", id)
          /\ UNCHANGED <<tasks, due>>
     ELSE /\ tasks' = Without(id)
          /\ due' = due \ {id}
          /\ last' = Step("delete", id, 302, Protect(s), TRUE,
                          NoCookie, NoList)
  /\ UNCHANGED <<now, users, session, nextId, jobs, mail, listReq, newReq>>

\* DeleteTask that answers NotFound for an id the store does not hold.
DeleteTaskStrict(s, id) ==
  /\ IF ~Protect(s)
     THEN /\ last' = Refused("delete", id)
          /\ UNCHANGED tasks
     ELSE IF id \notin DOMAIN tasks
     THEN /\ last' = Step("delete", id, ErrorStatus(404), Protect(s), TRUE,
                          NoCookie, NoList)
          /\ UNCHANGED tasks
     ELSE /\ tasks' = Without(id)
          /\ last' = Step("delete", id, 302, Protect(s), TRUE,
                          NoCookie, NoList)
  /\ UNCHANGED <<now, users, session, nextId, jobs, due, mail, listReq,
                 newReq>>

\* findByIdAndDelete resolves to null for an id that is not in the store;
\* the handler redirects whatever it resolves to.
DeleteTask(s, id) ==
  /\ IF ~Protect(s)
     THEN /\ last' = Refused("delete", id)
          /\ UNCHANGED tasks
     ELSE /\ tasks' = Without(id)
          /\ last' = Step("delete", id, 302, Protect(s), TRUE,
                          NoCookie, NoList)
  /\ UNCHANGED <<now, users, session, nextId, jobs, due, mail, listReq,
                 newReq>>


\* ------------------------------------------------------------ GET /tasks

\* allTasks.filter((task) => task.deadline < Date.now()): the ids of the
\* snapshot's documents whose deadline has passed, in store order.
TasksToDelete(allTasks, t) ==
  InOrder({i \in DOMAIN allTasks : allTasks[i].deadline < t})

\* protect, then the first Task.find.
GetTasks(s) ==
  /\ listReq.pc = "idle"
  /\ IF ~Protect(s)
     THEN /\ last' = Refused("list", None)
          /\ UNCHANGED listReq
     ELSE /\ listReq' = [pc |-> "filter", uid |-> session[s],
                         allTasks |-> Find(session[s])]
          /\ last' = Step("list", None, None, Protect(s), TRUE,
                          NoCookie, NoList)
  /\ UNCHANGED <<now, users, session, tasks, nextId, jobs, due, mail, newReq>>

\* The handler resumes with allTasks and filters it against the clock.
ListFilter ==
  /\ listReq.pc = "filter"
  /\ LET tasksToDelete == TasksToDelete(listReq.allTasks, now)
     IN listReq' = [pc |-> IF tasksToDelete = <<>> THEN "reread"
                           ELSE "delete",
                    uid |-> listReq.uid, allTasks |-> listReq.allTasks,
                    tasksToDelete |-> tasksToDelete, sweptAt |-> now]
  /\ last' = Step("list", None, None, TRUE, FALSE, NoCookie, NoList)
  /\ UNCHANGED <<now, users, session, tasks, nextId, jobs, due, mail, newReq>>

\* One turn of the loop: findByIdAndDelete of the next expired task.
ListDelete ==
  /\ listReq.pc = "delete"
  /\ tasks' = Without(Head(listReq.tasksToDelete))
  /\ listReq' = [listReq EXCEPT
                   !.tasksToDelete = Tail(@),
                   !.pc = IF Tail(listReq.tasksToDelete) = <<>>
                          THEN "reread" ELSE "delete"]
  /\ last' = Step("list", None, None, TRUE, TRUE, NoCookie, NoList)
  /\ UNCHANGED <<now, users, session, nextId, jobs, due, mail, newReq>>

\* The second Task.find.
ListReread ==
  /\ listReq.pc = "reread"
  /\ listReq' = [listReq EXCEPT !.pc = "render"] @@
                  [remainingTasks |-> Find(listReq.uid)]
  /\ last' = Step("list", None, None, TRUE, TRUE, NoCookie, NoList)
  /\ UNCHANGED <<now, users, session, tasks, nextId, jobs, due, mail, newReq>>

\* The handler resumes with remainingTasks and renders it.
ListRender ==
  /\ listReq.pc = "render"
  /\ last' = Step("list", None, 200, TRUE, FALSE,
                  NoCookie, listReq.remainingTasks)
  /\ listReq' = Idle
  /\ UNCHANGED <<now, users, session, tasks, nextId, jobs, due, mail, newReq>>

\* ----------------------------------------------------------------- Next

Next ==
  \/ Tick(MaxTime)
  \/ \E j \in 1..MaxTasks, ok \in BOOLEAN : FireReminder(j, ok)
  \/ \E s \in Sessions, e \in Emails, p \in Passwords : PostLogin(s, e, p)
  \/ \E s \in Sessions, e \in SignupEmails, p \in SignupPasswords :
       PostSignup(s, e, p)
  \/ \E s \in Sessions : GetLogout(s)
  \/ \E s \in Sessions : GetTasks(s)
  \/ ListFilter
  \/ ListDelete
  \/ ListReread
  \/ ListRender
  \/ \E s \in Sessions : GetTasksNew(s)
  \/ \E s \in Sessions : \E body \in NewBodies(now) : PostTasksNew(s, body)
  \/ NewSave
  \/ NewSchedule
  \/ \E s \in Sessions, id \in 1..MaxTasks : GetTask(s, id)
  \/ \E s \in Sessions, id \in 1..MaxTasks : GetTaskEdit(s, id)
  \/ \E s \in Sessions, id \in 1..MaxTasks :
       \E body \in UpdateBodies(now) : PutTaskEdit(s, id, body)
  \/ \E s \in Sessions, id \in 1..MaxTasks : DeleteTask(s, id)

Spec == Init /\ [][Next]_vars

\* ------------------------------------------- a reminder followed for a day

\* The state after one user has signed up and logged in.
InitDay ==
  /\ now = 0
  /\ users = <<[email |-> "a@x", password |-> Hash("pw1")]>>
  /\ session = [s \in Sessions |-> 1]
  /\ tasks = <<>>
  /\ nextId = 1
  /\ jobs = <<>>
  /\ due = {}
  /\ mail = <<>>
  /\ listReq = Idle
  /\ newReq = Idle
  /\ last = Step("login", None, 302, FALSE, FALSE, JwtSign(1), NoList)
               @@ [email |-> "a@x", password |-> "pw1"]

\* That user creates, edits and deletes tasks while the clock runs past the
\* next day's occurrence of the reminder's hour.
NextDay ==
  \/ Tick(MaxDayTime)
  \/ \E j \in 1..MaxTasks, ok \in BOOLEAN : FireReminder(j, ok)
  \/ \E s \in Sessions : \E body \in NewBodies(now) : PostTasksNew(s, body)
  \/ NewSave
  \/ NewSchedule
  \/ \E s \in Sessions, id \in 1..MaxTasks : DeleteTask(s, id)

SpecDay == InitDay /\ [][NextDay]_vars


\* ------------------------------------------- the app of unnamed/part_001

\* GET /tasks: protect, Task.find, render; nothing is swept.
Part001GetTasks(s) ==
  /\ last' = IF ~Protect(s) THEN Refused("list", None)
             ELSE Step("list", None, 200, Protect(s), TRUE, NoCookie,
                       Find(session[s]))
  /\ UNCHANGED <<now, users, session, tasks, nextId, jobs, due, mail,
                 listReq, newReq>>

\* GET /tasks/new: no guard precedes the handler.
Part001GetTasksNew(s) ==
  /\ last' = Step("form", None, 200, Protect(s), FALSE, NoCookie, NoList)
  /\ UNCHANGED <<now, users, session, tasks, nextId, jobs, due, mail,
                 listReq, newReq>>

\* POST /tasks/new: no guard precedes the handler; its validation and the
\* save that follows are those of index.js.
Part001PostTasksNew(s, body) ==
  /\ newReq.pc = "idle"
  /\ ValidationError(body, now) = None => nextId <= MaxTasks
  /\ TasksNewValidate(s, body)
  /\ UNCHANGED <<now, users, session, tasks, nextId, jobs, due, mail,
                 listReq>>

\* After save(): sendReminderEmail is awaited at once (it catches and logs a
\* transport failure), then the client is redirected.
Part001NewRemind(ok) ==
  /\ newReq.pc = "saved"
  /\ mail' = Append(mail, [job |-> None, at |-> now, ok |-> ok,
                           to |-> newReq.userEmail, title |-> newReq.title,
                           description |-> "", deadline |-> None])
  /\ newReq' = Idle
  /\ last' = Step("create", None, 302, newReq.authed, FALSE, NoCookie,
                  NoList)
  /\ UNCHANGED <<now, users, session, tasks, nextId, jobs, due, listReq>>

\* The routes of part_001 whose code is that of index.js are its actions;
\* POST /tasks, which none of the app's forms posts to, is left out.
NextPart001 ==
  \/ Tick(MaxTime)
  \/ \E s \in Sessions, e \in Emails, p \in Passwords : PostLogin(s, e, p)
  \/ \E s \in Sessions, e \in SignupEmails, p \in SignupPasswords :
       PostSignup(s, e, p)
  \/ \E s \in Sessions : GetLogout(s)
  \/ \E s \in Sessions : Part001GetTasks(s)
  \/ \E s \in Sessions : Part001GetTasksNew(s)
  \/ \E s \in Sessions : \E body \in NewBodies(now) :
       Part001PostTasksNew(s, body)
  \/ NewSave
  \/ \E ok \in BOOLEAN : Part001NewRemind(ok)
  \/ \E s \in Sessions, id \in 1..MaxTasks : GetTask(s, id)
  \/ \E s \in Sessions, id \in 1..MaxTasks : GetTaskEdit(s, id)
  \/ \E s \in Sessions, id \in 1..MaxTasks :
       \E body \in UpdateBodies(now) : PutTaskEdit(s, id, body)
  \/ \E s \in Sessions, id \in 1..MaxTasks : DeleteTask(s, id)

SpecPart001 == Init /\ [][NextPart001]_vars

\* ---------------------------------------------- the store raises an error

\* What a handler step answers when the store call it awaits rejects and the
\* rejection reaches next(err): the store's error carries no statusCode, so
\* the error middleware renders the error page with status 500.
StoreError(op, id, authed) ==
  Step(op, id, ErrorStatus(None), authed, TRUE, NoCookie, NoList)
    @@ [error |-> "store"]

\* User.findOne rejects; wrapAsync passes the rejection to next.
PostLoginStoreError(s) ==
  /\ last' = StoreError("login", None, FALSE)
  /\ UNCHANGED <<now, users, session, tasks, nextId, jobs, due, mail,
                 listReq, newReq>>

\* User.create rejects; wrapAsync passes the rejection to next.
PostSignupStoreError(s) ==
  /\ last' = StoreError("signup", None, FALSE)
  /\ UNCHANGED <<now, users, session, tasks, nextId, jobs, due, mail,
                 listReq, newReq>>

\* The first Task.find of GET /tasks rejects.
GetTasksStoreError(s) ==
  /\ listReq.pc = "idle"
  /\ Protect(s)
  /\ last' = StoreError("list", None, Protect(s))
  /\ UNCHANGED <<now, users, session, tasks, nextId, jobs, due, mail,
                 listReq, newReq>>

\* A findByIdAndDelete of the sweep, or the second Task.find, rejects: the
\* handler stops there and wrapAsync passes the rejection to next.
ListStoreError ==
  /\ listReq.pc \in {"delete", "reread"}
  /\ listReq' = Idle
  /\ last' = StoreError("list", None, TRUE)
  /\ UNCHANGED <<now, users, session, tasks, nextId, jobs, due, mail, newReq>>

\* User.findById or newTask.save() rejects: the handler's catch block calls
\* next(error); nothing is saved and no reminder is scheduled.
NewStoreError ==
  /\ newReq.pc = "lookup"
  /\ newReq' = Idle
  /\ last' = StoreError("create", None, newReq.authed)
  /\ UNCHANGED <<now, users, session, tasks, nextId, jobs, due, mail,
                 listReq>>

\* Task.findById of GET /tasks/:id rejects.
GetTaskStoreError(s, id) ==
  /\ Protect(s)
  /\ last' = StoreError("show", id, Protect(s))
  /\ UNCHANGED <<now, users, session, tasks, nextId, jobs, due, mail,
                 listReq, newReq>>

\* Task.findById of GET /tasks/:id/edit rejects.
GetTaskEditStoreError(s, id) ==
  /\ Protect(s)
  /\ last' = StoreError("editform", id, Protect(s))
  /\ UNCHANGED <<now, users, session, tasks, nextId, jobs, due, mail,
                 listReq, newReq>>

\* Task.findByIdAndUpdate rejects with an error of the store.
PutTaskEditStoreError(s, id) ==
  /\ Protect(s)
  /\ last' = StoreError("update", id, Protect(s))
  /\ UNCHANGED <<now, users, session, tasks, nextId, jobs, due, mail,
                 listReq, newReq>>

\* Task.findByIdAndDelete rejects. The handler is an async function given to
\* app.delete without wrapAsync and without a try block: the promise it
\* returned rejects, nothing calls next and nothing writes to res, so the
\* request stays without an answer (status None) and no later step of the
\* program belongs to it.
DeleteTaskStoreError(s, id) ==
  /\ Protect(s)
  /\ last' = Step("delete", id, None, Protect(s), TRUE, NoCookie, NoList)
               @@ [error |-> "store"]
  /\ UNCHANGED <<now, users, session, tasks, nextId, jobs, due, mail,
                 listReq, newReq>>

\* The logged-in user's requests, each store call of which may reject.
NextStoreError ==
  \/ Tick(MaxTime)
  \/ \E s \in Sessions : PostLoginStoreError(s)
  \/ \E s \in Sessions : PostSignupStoreError(s)
  \/ \E s \in Sessions : GetTasks(s)
  \/ \E s \in Sessions : GetTasksStoreError(s)
  \/ ListFilter
  \/ ListDelete
  \/ ListReread
  \/ ListRender
  \/ ListStoreError
  \/ \E s \in Sessions : \E body \in NewBodies(now) : PostTasksNew(s, body)
  \/ NewSave
  \/ NewSchedule
  \/ NewStoreError
  \/ \E s \in Sessions, id \in 1..MaxTasks : GetTask(s, id)
  \/ \E s \in Sessions, id \in 1..MaxTasks : GetTaskStoreError(s, id)
  \/ \E s \in Sessions, id \in 1..MaxTasks : GetTaskEdit(s, id)
  \/ \E s \in Sessions, id \in 1..MaxTasks : GetTaskEditStoreError(s, id)
  \/ \E s \in Sessions, id \in 1..MaxTasks :
       \E body \in UpdateBodies(now) : PutTaskEdit(s, id, body)
  \/ \E s \in Sessions, id \in 1..MaxTasks : PutTaskEditStoreError(s, id)
  \/ \E s \in Sessions, id \in 1..MaxTasks : DeleteTask(s, id)
  \/ \E s \in Sessions, id \in 1..MaxTasks : DeleteTaskStoreError(s, id)

SpecStoreError == InitDay /\ [][NextStoreError]_vars


\* ------------------------------------------------ two users, one browser

\* The state after two users have signed up (signup leaves the session
\* without a user identifier).
InitOwners ==
  /\ now = 0
  /\ users = <<[email |-> "a@x", password |-> Hash("pw1")],
               [email |-> "b@x", password |-> Hash("pw2")]>>
  /\ session = [s \in Sessions |-> None]
  /\ tasks = <<>>
  /\ nextId = 1
  /\ jobs = <<>>
  /\ due = {}
  /\ mail = <<>>
  /\ listReq = Idle
  /\ newReq = Idle
  /\ last = Step("signup", None, 302, FALSE, FALSE, JwtSign(2), NoList)

\* Either user logs in and out, creates, edits, lists and deletes tasks.
NextOwners ==
  \/ Tick(MaxTime)
  \/ \E s \in Sessions, e \in Emails, p \in Passwords : PostLogin(s, e, p)
  \/ \E s \in Sessions : GetLogout(s)
  \/ \E s \in Sessions : GetTasks(s)
  \/ ListFilter
  \/ ListDelete
  \/ ListReread
  \/ ListRender
  \/ \E s \in Sessions : \E body \in NewBodies(now) : PostTasksNew(s, body)
  \/ NewSave
  \/ NewSchedule
  \/ \E s \in Sessions, id \in 1..MaxTasks :
       \E body \in UpdateBodies(now) : PutTaskEdit(s, id, body)
  \/ \E s \in Sessions, id \in 1..MaxTasks : DeleteTask(s, id)

SpecOwners == InitOwners /\ [][NextOwners]_vars


\* ---------------------------------------------------------------- claims

\* The sendMail calls made for cron job j, as indexes into mail.
SendsOf(j) == {k \in 1..Len(mail) : mail[k].job = j}

\* C1: for every task created through POST /tasks/new the Notifier is
\* invoked exactly once over the life of the process: a reminder that has
\* fired is discarded and never fires again (at most one sendMail per task).
C1_FiresAtMostOnce ==
  \A j \in 1..Len(jobs) : Cardinality(SendsOf(j)) <= 1

\* C2: the Notifier is first invoked for a task when the clock reaches its
\* deadline minus one hour and never earlier, whatever the deadline (also
\* one more than 24 hours ahead): no sendMail precedes deadline - 1 hour.
C2_NeverBeforeDeadlineMinusHour ==
  \A j \in 1..Len(jobs) :
    \A k \in SendsOf(j) : mail[k].at >= jobs[j].taskDeadline - Hour

\* C8: a transport failure when a reminder fires is absorbed by the
\* scheduler: the step leaves the Task Store and the answer of the request
\* that scheduled it as they were, and the send is not attempted again for a
\* task whose send has failed.
C8_FailureAbsorbedNoRetry ==
  [][Len(mail') > Len(mail) =>
       /\ tasks' = tasks
       /\ last' = last
       /\ \A k \in SendsOf(mail'[Len(mail')].job) : mail[k].ok]_vars

\* The routes that operate on tasks.
TaskOps == {"list", "form", "create", "show", "editform", "update", "delete"}

\* C3: POST /tasks/new stores a task only when its deadline parses to a
\* timestamp strictly greater than the clock reading at validation time plus
\* one hour; a body whose title, deadline or userId is missing, or whose
\* deadline is unparsable, past or not more than one hour ahead, is answered
\* 400 with no task added and no reminder scheduled.
C3_CreateValidated ==
  [][/\ nextId' # nextId =>
          /\ newReq.pc = "lookup"
          /\ tasks'[nextId].deadline = newReq.deadlineDate
          /\ newReq.deadlineDate # NaN
          /\ newReq.deadlineDate > newReq.currentTime + Hour
     /\ DOMAIN tasks' \subseteq DOMAIN tasks \/ nextId' # nextId
     /\ Len(jobs') > Len(jobs) => newReq.pc = "saved"
     /\ last' # last /\ last'.op = "create" /\ "body" \in DOMAIN last' =>
          LET b == last'.body
              bad == \/ b.title = ""
                     \/ b.userId = None
                     \/ b.deadline.fmt # "iso"
                     \/ ~(b.deadline.value > now + Hour)
          IN /\ bad => /\ last'.status = 400
                       /\ tasks' = tasks
                       /\ jobs' = jobs
                       /\ newReq'.pc = "idle"
             /\ ~bad => /\ last'.status = None
                        /\ newReq'.pc = "lookup"
                        /\ newReq'.currentTime = now
                        /\ newReq'.deadlineDate = b.deadline.value]_vars

\* C3 witness: a task was saved after the clock moved on from the reading
\* its deadline was validated against.
C3_Witness ==
  /\ newReq.pc = "saved"
  /\ newReq.id \in DOMAIN tasks
  /\ now > newReq.currentTime
  /\ tasks[newReq.id].deadline = newReq.currentTime + 2 * Hour

\* C4: the list rendered by GET /tasks never contains a task whose deadline
\* has elapsed at the time the list is returned, under every interleaving of
\* the handler's steps with the clock and with other requests.
C4_NoElapsedTaskListed ==
  [][listReq.pc = "render" /\ listReq'.pc = "idle" =>
       \A i \in DOMAIN last'.list : ~(last'.list[i].deadline < now)]_vars

\* C5: no task operation reads or writes the Task Store for a request whose
\* session carries no user identifier: such a request is refused by the
\* guard before the handler body runs.
C5_GuardBeforeStore ==
  last.op \in TaskOps /\ last.store => last.authed

\* C6: a POST /login with an unknown email or a password that does not match
\* the stored hash is answered 401, leaves the session as it was and sets no
\* jwt cookie; a session's user identifier is only ever set by a login whose
\* password matches the hash stored for that user.
C6_LoginFailure ==
  [][/\ last'.op = "login" =>
          LET u == FindOne(last'.email)
              bad == u = None \/ users[u].password # Hash(last'.password)
          IN bad => /\ last'.status = 401
                    /\ session' = session
                    /\ last'.setCookie = NoCookie
     /\ \A s \in Sessions :
          session'[s] # session[s] /\ session'[s] # None =>
            /\ last'.op = "login"
            /\ last'.status = 302
            /\ session'[s] = FindOne(last'.email)
            /\ users[session'[s]].password = Hash(last'.password)]_vars

\* C6 witness: a login with a registered email and a wrong password was
\* answered 401 and the session still carries no user.
C6_Witness ==
  /\ last.op = "login"
  /\ last.status = 401
  /\ FindOne(last.email) # None
  /\ \A s \in Sessions : session[s] = None

\* C7: a successful POST /signup sets both the jwt cookie and the session's
\* user identifier to the new user, so that the GET /tasks it redirects to
\* passes the guard.
C7_SignupSetsSession ==
  last.op = "signup" /\ last.status = 302 =>
    /\ last.setCookie = JwtSign(Len(users))
    /\ \E s \in Sessions : session[s] = Len(users)

\* C9: removing a task (DELETE /tasks/:id or the sweep of GET /tasks) or
\* editing it neither cancels nor alters its reminder: the registered jobs
\* stay as they were, a due job stops being due only by running, and it runs
\* with the recipient, title, description and deadline captured at creation.
C9_ReminderSurvives ==
  [][/\ Len(jobs') >= Len(jobs)
     /\ \A j \in 1..Len(jobs) : jobs'[j] = jobs[j]
     /\ Len(jobs') > Len(jobs) =>
          LET job == jobs'[Len(jobs')]
          IN /\ job.userEmail = newReq.userEmail
             /\ job.taskTitle = newReq.title
             /\ job.taskDescription = newReq.description
             /\ job.taskDeadline = newReq.deadlineDate
     /\ now' # now =>
          due' = {j \in 1..Len(jobs) :
                    (jobs[j].taskDeadline - Hour - now') % HoursPerDay = 0}
     /\ \A j \in due \ due' :
          /\ Len(mail') = Len(mail) + 1
          /\ mail'[Len(mail')].job = j
          /\ mail'[Len(mail')].to = jobs[j].userEmail
          /\ mail'[Len(mail')].title = jobs[j].taskTitle
          /\ mail'[Len(mail')].description = jobs[j].taskDescription
          /\ mail'[Len(mail')].deadline = jobs[j].taskDeadline]_vars

\* C9 witness: a task was edited before its reminder ran, and the reminder
\* ran with the title and deadline the task was created with.
C9_Witness ==
  \E k \in 1..Len(mail) :
    LET j == mail[k].job
    IN /\ j \in DOMAIN tasks
       /\ tasks[j].title \in NewTitles
       /\ tasks[j].deadline - UpdateOffset < mail[k].at
       /\ mail[k].title \in Titles
       /\ mail[k].deadline # tasks[j].deadline

\* C10: PUT /tasks/:id/edit (with a body the schema accepts) for an id that
\* is not in the Task Store fails with status 404 and does not answer with
\* the success redirect.
C10_UpdateAbsentIs404 ==
  /\ last.op = "update"
  /\ last.authed
  /\ SchemaValid(last.body)
  /\ last.id \notin DOMAIN tasks
  => last.status = 404

\* C11: DELETE /tasks/:id for an id that is not (or no longer) in the Task
\* Store raises no error, answers the redirect (302) a delete of a stored
\* task answers, and leaves the Task Store exactly as it was.
C11_DeleteIdempotent ==
  [][last'.op = "delete" /\ last'.authed =>
       /\ last'.status = 302
       /\ last'.id \notin DOMAIN tasks => tasks' = tasks]_vars

\* A delete was answered for an id that is no longer in the store: a task
\* has been created and the store is empty again after an authorized delete.
C11_Witness ==
  /\ last.op = "delete" /\ last.authed /\ last.status = 302
  /\ last.id \notin DOMAIN tasks
  /\ nextId > 1 /\ tasks = <<>>

\* C12: a request whose store call raised an error is answered by the error
\* middleware: the handler step at which the store rejected ends with the
\* rendered error page (status 500, the store's error having no statusCode);
\* no handler leaves such a request without an answer.
C12_StoreErrorAnswered ==
  "error" \in DOMAIN last => last.status = ErrorStatus(None)

\* C13: a task leaves the Task Store only through a DELETE /tasks/:id of a
\* request whose session carries the identifier of the task's owning user,
\* or through the sweep of GET /tasks at a moment when the deadline the
\* store holds for it has elapsed.
C13_RemovedByOwnerOrExpiry ==
  [][\A id \in DOMAIN tasks \ DOMAIN tasks' :
       \/ /\ last'.op = "delete" /\ last'.id = id
          /\ \E s \in Sessions : session[s] = tasks[id].user
       \/ /\ last'.op = "list"
          /\ tasks[id].deadline < now]_vars

====
